---- MODULE Spec2Model ----
(***************************************************************************)
(* A model of docs.go: the documentation generator of the cli package.     *)
(*                                                                         *)
(* A text is a sequence of codepoints, each written as a one-character     *)
(* string.  Three specifications share the module:                         *)
(*   Spec      - tabularTemplate.Prettify applied to a document and then   *)
(*               to its own result;                                        *)
(*   SpecFlags - prepareFlags (detailed, synopsis) and PrepareFlags        *)
(*               (structured) applied to a list of flags;                  *)
(*   SpecTree  - prepareCommands and PrepareCommands applied to a tree of  *)
(*               commands.                                                 *)
(***************************************************************************)
EXTENDS Integers, Sequences, FiniteSets, TLC

VARIABLES
    t,        \* Prettify: the argument of the first call
    s,        \* Prettify: the local s, the text being rewritten
    tables,   \* Prettify: the result of FindAllString, the raw blocks
    n,        \* Prettify: index of the next block of tables to process
    b,        \* Prettify: the content of the strings.Builder b
    pc,       \* position in the running function
    pass,     \* Prettify: 1 for the first call, 2 for the call on its result
    out1,     \* Prettify: the result of the first call
    flags,    \* the []Flag argument of the flag formatters
    args,     \* the []string result of prepareFlags
    tflags,   \* the []cliTabularFlagTemplate result of PrepareFlags
    cmds,     \* the commands of the App: id -> Command
    coms,     \* the []string result of prepareCommands
    tcoms     \* the []cliTabularCommandTemplate result of PrepareCommands

vars == <<t, s, tables, n, b, pc, pass, out1, flags, args, tflags, cmds, coms, tcoms>>

prettifyVars == <<t, s, tables, n, b, pass, out1>>
flagVars == <<flags, args, tflags>>
treeVars == <<cmds, coms, tcoms>>

-----------------------------------------------------------------------------
(* Bounds of the model.                                                    *)

MaxLines == 4

-----------------------------------------------------------------------------
(* The string functions of the Go library that docs.go calls.              *)

NL == "\n"

CR == "\r"

\* unicode.IsSpace, on the codepoints of the model
IsSpace(c) == c \in {" ", "\t", "\n", "\r"}

Max(x, y) == IF x > y THEN x ELSE y

\* strings.Repeat of a one-codepoint string
Repeat(c, k) == [i \in 1..k |-> c]

\* utf8.RuneCountInString
RuneCountInString(x) == Len(x)

\* strings.HasPrefix / strings.HasSuffix with a one-codepoint argument
HasPrefix(x, c) == Len(x) > 0 /\ x[1] = c

HasSuffix(x, c) == Len(x) > 0 /\ x[Len(x)] = c

\* strings.Trim(x, cutset)
Trim(x, cutset) ==
    LET keep == {i \in 1..Len(x) : x[i] \notin cutset}
    IN  IF keep = {} THEN <<>>
        ELSE LET lo == CHOOSE i \in keep : \A k \in keep : i <= k
                 hi == CHOOSE i \in keep : \A k \in keep : i >= k
             IN  SubSeq(x, lo, hi)

\* strings.TrimRight(x, cutset)
TrimRight(x, cutset) ==
    LET keep == {i \in 1..Len(x) : x[i] \notin cutset}
    IN  IF keep = {} THEN <<>>
        ELSE SubSeq(x, 1, CHOOSE i \in keep : \A k \in keep : i >= k)

\* strings.TrimSpace
TrimSpace(x) ==
    LET keep == {i \in 1..Len(x) : ~IsSpace(x[i])}
    IN  IF keep = {} THEN <<>>
        ELSE LET lo == CHOOSE i \in keep : \A k \in keep : i <= k
                 hi == CHOOSE i \in keep : \A k \in keep : i >= k
             IN  SubSeq(x, lo, hi)

\* strings.Split(x, c) for a one-codepoint separator: empty fields are kept
RECURSIVE Split(_, _)
Split(x, c) ==
    LET at == {i \in 1..Len(x) : x[i] = c}
    IN  IF at = {} THEN <<x>>
        ELSE LET i == CHOOSE k \in at : \A m \in at : k <= m
             IN  <<SubSeq(x, 1, i - 1)>> \o Split(SubSeq(x, i + 1, Len(x)), c)

\* strings.FieldsFunc(x, func(r) bool { return r == c }): empty fields are dropped
FieldsFunc(x, c) == SelectSeq(Split(x, c), LAMBDA f : f # <<>>)

\* strings.Join
RECURSIVE Join(_, _)
Join(xs, sep) ==
    IF xs = <<>> THEN <<>>
    ELSE IF Len(xs) = 1 THEN xs[1]
    ELSE xs[1] \o sep \o Join(Tail(xs), sep)

\* strings.Index: the first place x holds sub, 0 when it holds it nowhere
Index(x, sub) ==
    LET at == {i \in 1..(Len(x) - Len(sub) + 1) : SubSeq(x, i, i + Len(sub) - 1) = sub}
    IN  IF at = {} THEN 0 ELSE CHOOSE i \in at : \A k \in at : i <= k

\* strings.Replace(x, old, new, 1) for a non-empty old
Replace1(x, old, new) ==
    LET i == Index(x, old)
    IN  IF i = 0 THEN x
        ELSE SubSeq(x, 1, i - 1) \o new \o SubSeq(x, i + Len(old), Len(x))

\* strings.ReplaceAll(x, "\n", " ")
ReplaceAllNL(x) == [i \in 1..Len(x) |-> IF x[i] = NL THEN " " ELSE x[i]]

-----------------------------------------------------------------------------
(* Prettify: the search for tables.                                        *)
(*                                                                         *)
(* The pattern is                                                          *)
(*   (?m)^ G1 G2 G3? $   with   G1 = \|[^\n]+\|\r?\n                       *)
(*                              G2 = (?:\|:?-+:?)+\|                       *)
(*                              G3 = \n(?:\|[^\n]+\|\r?\n?)* (repeated)    *)
(* A match starts at the start of a line.  [^\n] cannot cross a line end,  *)
(* so group 1 is one whole line and its newline, group 2 is one whole line *)
(* (what follows it is \n or the end of a line), and every repetition in   *)
(* group 3 ends at the end of a line: a line is taken by the repetitions   *)
(* exactly when it is a row line.  The quantifiers are greedy, so group 3  *)
(* takes every row line that follows, and the newline after the last line  *)
(* taken is part of the match exactly when $ matches after it, at the end  *)
(* of the text or in front of another newline.                             *)

\* the place of the first newline at or after p, Len(x) + 1 when there is none
LineEnd(x, p) ==
    LET at == {i \in p..Len(x) : x[i] = NL}
    IN  IF at = {} THEN Len(x) + 1 ELSE CHOOSE i \in at : \A k \in at : i <= k

\* the line that starts at p, without its newline
LineAt(x, p) == SubSeq(x, p, LineEnd(x, p) - 1)

\* a whole line matching \|[^\n]+\|\r?
IsRowLine(l) ==
    /\ Len(l) >= 3
    /\ l[1] = "|"
    /\ \/ l[Len(l)] = "|"
       \/ Len(l) >= 4 /\ l[Len(l)] = CR /\ l[Len(l) - 1] = "|"

\* a text matching :?-+:?
IsSepCell(c) ==
    LET lo == IF HasPrefix(c, ":") THEN 2 ELSE 1
        hi == IF HasSuffix(c, ":") THEN Len(c) - 1 ELSE Len(c)
    IN  lo <= hi /\ \A k \in lo..hi : c[k] = "-"

\* a whole line matching (?:\|:?-+:?)+\|
IsSepLine(l) ==
    /\ Len(l) >= 3
    /\ l[1] = "|"
    /\ l[Len(l)] = "|"
    /\ LET cells == Split(SubSeq(l, 2, Len(l) - 1), "|")
       IN  \A k \in 1..Len(cells) : IsSepCell(cells[k])

\* the last place of a match whose last line taken so far ends in front of e
RECURSIVE BodyEnd(_, _)
BodyEnd(x, e) ==
    IF e > Len(x) THEN Len(x)
    ELSE IF e + 1 <= Len(x) /\ IsRowLine(LineAt(x, e + 1))
         THEN BodyEnd(x, LineEnd(x, e + 1))
    ELSE IF e + 1 > Len(x) \/ x[e + 1] = NL THEN e
    ELSE e - 1

\* the matches in x from the line start p on, as [from, to] places
RECURSIVE FindAllFrom(_, _)
FindAllFrom(x, p) ==
    IF p > Len(x) THEN <<>>
    ELSE LET e1 == LineEnd(x, p)
         IN  IF e1 > Len(x) THEN <<>>
             ELSE IF IsRowLine(LineAt(x, p)) /\ IsSepLine(LineAt(x, e1 + 1))
                  THEN LET to == BodyEnd(x, LineEnd(x, e1 + 1))
                       IN  <<[from |-> p, to |-> to]>>
                               \o FindAllFrom(x, IF x[to] = NL THEN to + 1 ELSE to + 2)
             ELSE FindAllFrom(x, e1 + 1)

FindAllIndex(x) == FindAllFrom(x, 1)

\* regexp.FindAllString(s, -1)
FindAllString(x) ==
    LET m == FindAllIndex(x)
    IN  [k \in 1..Len(m) |-> SubSeq(x, m[k].from, m[k].to)]

-----------------------------------------------------------------------------
(* Prettify: one table.                                                    *)

\* the lines of a raw block
TableLines(rawTable) == FieldsFunc(rawTable, NL)

\* a slip: a block of two lines is taken to have a body
TooShortBy2(lines) == Len(lines) < 2

\* len(lines) < 3: header, separator, body
TooShort(lines) == Len(lines) < 3

\* the cells of one line: the items of a row of the matrix
ParseRow(line) ==
    LET items == FieldsFunc(Trim(line, {"|", " "}), "|")
    IN  [i \in 1..Len(items) |-> TrimSpace(items[i])]

\* parse table into the matrix
ParseMatrix(rawTable) ==
    LET lines == TableLines(rawTable)
    IN  [i \in 1..Len(lines) |-> ParseRow(lines[i])]

\* determine centered columns (from the separator, the second row)
Centered(matrix) ==
    [j \in 1..Len(matrix[2]) |-> HasPrefix(matrix[2][j], ":") /\ HasSuffix(matrix[2][j], ":")]

\* calculate max lengths: lengths has one entry per header cell
Lengths(matrix) ==
    [j \in 1..Len(matrix[1]) |->
        LET ls == {RuneCountInString(matrix[i][j]) :
                       i \in {k \in 1..Len(matrix) : k # 2 /\ j <= Len(matrix[k])}}
        IN  IF ls = {} THEN 0 ELSE CHOOSE l \in ls : \A m \in ls : l >= m]

\* lengths[i] is indexed out of range in the loop that calculates the lengths
LengthsOutOfRange(matrix) ==
    \E i \in 1..Len(matrix) : i # 2 /\ Len(matrix[i]) > Len(matrix[1])

\* lengths[j] or centered[j] is indexed out of range in the loop that formats
FormatOutOfRange(matrix) ==
    \/ Len(matrix[2]) > Len(matrix[1])
    \/ \E i \in 1..Len(matrix) : i # 2 /\ Len(matrix[i]) > Len(matrix[2])

Panics(matrix) == LengthsOutOfRange(matrix) \/ FormatOutOfRange(matrix)

\* a slip: the dashes of a centered separator are sized like those of a left one
FormatSeparatorWide(isCentered, length) ==
    IF isCentered
    THEN <<":">> \o Repeat("-", Max(0, length + 2)) \o <<":">>
    ELSE Repeat("-", Max(0, length + 2))

\* the regenerated separator cell of a column
FormatSeparator(isCentered, length) ==
    IF isCentered
    THEN <<":">> \o Repeat("-", Max(0, length)) \o <<":">>
    ELSE Repeat("-", Max(0, length + 2))

\* a slip: the half of the leftover space is rounded up
PadLeftRoundedUp(isCentered, length, cellWidth) ==
    IF isCentered THEN Max(1, (length - cellWidth + 1) \div 2) ELSE 1

\* the left pad of a header or body cell, before the extra space
PadLeft(isCentered, length, cellWidth) ==
    IF isCentered THEN Max(1, (length - cellWidth) \div 2) ELSE 1

\* the right pad of a header or body cell
PadRight(isCentered, length, cellWidth) ==
    IF isCentered
    THEN Max(1, length - cellWidth - (PadLeft(isCentered, length, cellWidth) - 1))
    ELSE Max(1, length - cellWidth + 1)

\* a padded header or body cell
FormatCell(cell, isCentered, length) ==
    LET cellWidth == RuneCountInString(cell)
        padLeft == PadLeft(isCentered, length, cellWidth)
        padRight == PadRight(isCentered, length, cellWidth)
    IN  Repeat(" ", padLeft)
            \o (IF padLeft + cellWidth + padRight <= length + 1 THEN <<" ">> ELSE <<>>)
            \o cell
            \o Repeat(" ", padRight)

\* format cells: the matrix after the loop, for a matrix that does not panic
FormatMatrix(matrix) ==
    LET centered == Centered(matrix)
        lengths == Lengths(matrix)
    IN  [i \in 1..Len(matrix) |->
            [j \in 1..Len(matrix[i]) |->
                IF i = 2 THEN FormatSeparator(centered[j], lengths[j])
                ELSE FormatCell(matrix[i][j], centered[j], lengths[j])]]

\* build new table: the content of b after the last loop
RECURSIVE BuildTable(_)
BuildTable(rows) ==
    IF rows = <<>> THEN <<>>
    ELSE <<"|">> \o Join(rows[1], <<"|">>) \o <<"|", NL>> \o BuildTable(Tail(rows))

\* the new text of a raw block of three lines or more that does not panic
Reflow(rawTable) == BuildTable(FormatMatrix(ParseMatrix(rawTable)))

\* \n{2,} replaced by \n\n
RECURSIVE NormalizeNewlines(_)
NormalizeNewlines(x) ==
    IF Len(x) < 3 THEN x
    ELSE IF x[1] = NL /\ x[2] = NL /\ x[3] = NL THEN NormalizeNewlines(Tail(x))
    ELSE <<x[1]>> \o NormalizeNewlines(Tail(x))

\* a slip: the runs of newlines are not normalized
CleanupNoNormalize(x) == Trim(x, {" ", NL}) \o <<NL>>

\* the last three statements of Prettify
Cleanup(x) == Trim(NormalizeNewlines(x), {" ", NL}) \o <<NL>>

-----------------------------------------------------------------------------
(* Prettify as a state machine: the search, one step per raw block, the    *)
(* cleanup, and a second call on the result of the first.                  *)

\* the lines the documents are made of
LinePool ==
    { <<>>,
      <<" ">>,
      <<" ", "|", "-", "|">>,
      <<"|", "a", "|">>,
      <<"|", "a", "a", "|">>,
      <<"|", "a", "a", "a", "a", "|">>,
      <<"|", "a", "|", "b", "b", "|">>,
      <<"|", "a", "a", "a", "|", "b", "|">>,
      <<"|", "-", "|">>,
      <<"|", ":", "-", ":", "|">>,
      <<"|", "-", "|", ":", "-", ":", "|">> }

\* the documents: at most MaxLines lines of the pool, joined by newlines
Docs == {Join(ls, <<NL>>) : ls \in UNION {[1..k -> LinePool] : k \in 0..MaxLines}}

Init ==
    /\ t \in Docs
    /\ s = t
    /\ tables = <<>>
    /\ n = 0
    /\ b = <<>>
    /\ pc = "start"
    /\ pass = 1
    /\ out1 = <<>>
    /\ flags = <<>> /\ args = <<>> /\ tflags = <<>>
    /\ cmds = <<>> /\ coms = <<>> /\ tcoms = <<>>

\* search for tables
FindTables ==
    /\ pc = "start"
    /\ tables' = FindAllString(s)
    /\ n' = 1
    /\ pc' = "loop"
    /\ UNCHANGED <<t, s, b, pass, out1, flagVars, treeVars>>

\* a block of fewer than three lines: continue
SkipTable ==
    /\ pc = "loop"
    /\ n <= Len(tables)
    /\ TooShort(TableLines(tables[n]))
    /\ n' = n + 1
    /\ UNCHANGED <<t, s, tables, b, pc, pass, out1, flagVars, treeVars>>

\* a block whose rows index lengths or centered out of range: run-time panic
PanicTable ==
    /\ pc = "loop"
    /\ n <= Len(tables)
    /\ ~TooShort(TableLines(tables[n]))
    /\ Panics(ParseMatrix(tables[n]))
    /\ pc' = "panic"
    /\ UNCHANGED <<t, s, tables, n, b, pass, out1, flagVars, treeVars>>

\* a block that is parsed, formatted, built and put in place of its raw text
RewriteTable ==
    /\ pc = "loop"
    /\ n <= Len(tables)
    /\ ~TooShort(TableLines(tables[n]))
    /\ ~Panics(ParseMatrix(tables[n]))
    /\ b' = Reflow(tables[n])
    /\ s' = Replace1(s, tables[n], b')
    /\ n' = n + 1
    /\ UNCHANGED <<t, tables, pc, pass, out1, flagVars, treeVars>>

\* normalize newlines, trim spaces and newlines, add an extra newline, return
Finish ==
    /\ pc = "loop"
    /\ n > Len(tables)
    /\ s' = Cleanup(s)
    /\ pc' = "done"
    /\ UNCHANGED <<t, tables, n, b, pass, out1, flagVars, treeVars>>

\* Prettify called on the text the first call returned
Again ==
    /\ pc = "done"
    /\ pass = 1
    /\ out1' = s
    /\ pass' = 2
    /\ tables' = <<>>
    /\ n' = 0
    /\ b' = <<>>
    /\ pc' = "start"
    /\ UNCHANGED <<t, s, flagVars, treeVars>>

Next == FindTables \/ SkipTable \/ PanicTable \/ RewriteTable \/ Finish \/ Again

Spec == Init /\ [][Next]_vars

-----------------------------------------------------------------------------
(* The flag formatters: prepareFlags and tabularTemplate.PrepareFlags.     *)

MaxFlags == 2

\* the codepoint of a character of the model
CodePoint(c) ==
    CASE c = NL -> 10    [] c = " " -> 32   [] c = "\"" -> 34  [] c = "(" -> 40
      [] c = ")" -> 41   [] c = "*" -> 42   [] c = "," -> 44   [] c = "-" -> 45
      [] c = ":" -> 58   [] c = "=" -> 61   [] c = "[" -> 91   [] c = "]" -> 93
      [] c = "a" -> 97   [] c = "b" -> 98   [] c = "d" -> 100  [] c = "e" -> 101
      [] c = "f" -> 102  [] c = "l" -> 108  [] c = "r" -> 114  [] c = "s" -> 115
      [] c = "t" -> 116  [] c = "u" -> 117  [] c = "v" -> 118  [] c = "|" -> 124
      [] c = "\t" -> 9   [] c = "\r" -> 13  [] c = "." -> 46   [] c = "é" -> 233

\* len(x): the number of bytes of the UTF-8 encoding of x
RECURSIVE ByteLen(_)
ByteLen(x) ==
    IF x = <<>> THEN 0
    ELSE (IF CodePoint(x[1]) < 128 THEN 1 ELSE 2) + ByteLen(Tail(x))

\* x < y for Go strings: byte-wise, which for UTF-8 is codepoint-wise
RECURSIVE Less(_, _)
Less(x, y) ==
    IF y = <<>> THEN FALSE
    ELSE IF x = <<>> THEN TRUE
    ELSE IF x[1] = y[1] THEN Less(Tail(x), Tail(y))
    ELSE CodePoint(x[1]) < CodePoint(y[1])

\* sort.Strings
RECURSIVE Insert(_, _)
Insert(x, sorted) ==
    IF sorted = <<>> THEN <<x>>
    ELSE IF Less(sorted[1], x) THEN <<sorted[1]>> \o Insert(x, Tail(sorted))
    ELSE <<x>> \o sorted

RECURSIVE SortStrings(_)
SortStrings(xs) == IF xs = <<>> THEN <<>> ELSE Insert(xs[1], SortStrings(Tail(xs)))

\* PrepareMultilineString prepares a string (removes line breaks)
PrepareMultilineString(x) == TrimRight(TrimSpace(ReplaceAllNL(x)), {".", "\r", "\n", "\t"})

\* a slip: every name takes two dashes
DashNameAlwaysTwo(trimmed) == <<"-", "-">> \o trimmed

\* prepareFlags: one trimmed name with its dashes
DashName(trimmed) ==
    IF ByteLen(trimmed) > 1 THEN <<"-", "-">> \o trimmed ELSE <<"-">> \o trimmed

\* prepareFlags: the loop over flag.Names(), from the name k on
RECURSIVE NamesLoop(_, _, _, _, _)
NamesLoop(names, k, modifiedArg, sep, opener) ==
    IF k > Len(names) THEN modifiedArg
    ELSE NamesLoop(names, k + 1,
                   (IF ByteLen(modifiedArg) > ByteLen(opener)
                    THEN modifiedArg \o sep ELSE modifiedArg)
                       \o DashName(TrimSpace(names[k])),
                   sep, opener)

\* flagDetails returns a string containing the flags metadata
flagDetails(flag) ==
    <<":", " ">> \o flag.usage
        \o (IF flag.value # <<>>
            THEN <<" ", "(", "d", "e", "f", "a", "u", "l", "t", ":", " ">> \o flag.value \o <<")">>
            ELSE <<>>)

\* prepareFlags: the argument of one flag
ModifiedArg(flag, sep, opener, closer, value, addDetails) ==
    NamesLoop(flag.names, 1, opener, sep, opener)
        \o closer
        \o (IF flag.takesValue THEN <<"=">> \o value ELSE <<>>)
        \o (IF addDetails THEN flagDetails(flag) ELSE <<>>)
        \o <<NL>>

prepareFlags(fs, sep, opener, closer, value, addDetails) ==
    LET docs == SelectSeq(fs, LAMBDA f : f.doc)
    IN  SortStrings([k \in 1..Len(docs) |->
                        ModifiedArg(docs[k], sep, opener, closer, value, addDetails)])

prepareArgsWithValues(fs) ==
    prepareFlags(fs, <<",", " ">>, <<"*", "*">>, <<"*", "*">>, <<"\"", "\"">>, TRUE)

prepareArgsSynopsis(fs) ==
    prepareFlags(fs, <<"|">>, <<"[">>, <<"]">>, <<"[", "v", "a", "l", "u", "e", "]">>, FALSE)

\* strconv.FormatBool
FormatBool(v) == IF v THEN <<"t", "r", "u", "e">> ELSE <<"f", "a", "l", "s", "e">>

\* PrepareFlags: the name of the flag, its first name
CanonicalName(name) == <<"-", "-">> \o name

\* PrepareFlags: an alias, a name after the first
AliasName(name) ==
    IF ByteLen(name) > 1 THEN <<"-", "-">> \o name ELSE <<"-">> \o name

\* PrepareFlags: one flag
TabularFlag(flag) ==
    [ Name |-> IF flag.names = <<>> THEN <<>> ELSE CanonicalName(TrimSpace(flag.names[1])),
      Aliases |-> [k \in 1..(Len(flag.names) - 1) |-> AliasName(TrimSpace(flag.names[k + 1]))],
      Usage |-> PrepareMultilineString(flag.usage),
      TakesValue |-> flag.takesValue,
      Default |-> IF flag.isBool THEN FormatBool(flag.boolValue) ELSE flag.value,
      EnvVars |-> flag.envVars ]

\* PrepareFlags converts CLI flags into a structs for the rendering
PrepareFlags(fs) ==
    LET docs == SelectSeq(fs, LAMBDA f : f.doc)
    IN  [k \in 1..Len(docs) |-> TabularFlag(docs[k])]

\* the names a flag of the model may be declared with
NamesPool ==
    { <<<<"v">>>>,
      <<<<"é">>>>,
      <<<<"a", "b">>>>,
      <<<<"v">>, <<"a", "b">>>>,
      <<<<"a", "b">>, <<"v">>>>,
      <<<<"a", "b">>, <<"é">>>>,
      <<<<" ", "v">>, <<"a", "b", " ">>>> }

\* a flag that takes a value, a bool flag, and a flag that is no DocGenerationFlag
StringFlag(names) ==
    [ names |-> names, usage |-> <<"u", ".">>, value |-> <<"d">>, takesValue |-> TRUE,
      doc |-> TRUE, isBool |-> FALSE, boolValue |-> FALSE, envVars |-> <<>> ]

BoolFlag(names) ==
    [ names |-> names, usage |-> <<"u">>, value |-> <<>>, takesValue |-> FALSE,
      doc |-> TRUE, isBool |-> TRUE, boolValue |-> TRUE, envVars |-> <<<<"e">>>> ]

PlainFlag(names) ==
    [ names |-> names, usage |-> <<>>, value |-> <<>>, takesValue |-> FALSE,
      doc |-> FALSE, isBool |-> FALSE, boolValue |-> FALSE, envVars |-> <<>> ]

FlagPool ==
    {StringFlag(ns) : ns \in NamesPool} \cup {BoolFlag(ns) : ns \in NamesPool}
        \cup {PlainFlag(ns) : ns \in NamesPool}

InitFlags ==
    /\ flags \in UNION {[1..k -> FlagPool] : k \in 0..MaxFlags}
    /\ args = <<>>
    /\ tflags = <<>>
    /\ pc = "start"
    /\ t = <<>> /\ s = <<>> /\ tables = <<>> /\ n = 0 /\ b = <<>>
    /\ pass = 0 /\ out1 = <<>>
    /\ cmds = <<>> /\ coms = <<>> /\ tcoms = <<>>

\* the detailed arguments, as writeDocTemplate asks for GlobalArgs
ArgsWithValues ==
    /\ pc = "start"
    /\ args' = prepareArgsWithValues(flags)
    /\ pc' = "detailed"
    /\ UNCHANGED <<flags, tflags, prettifyVars, treeVars>>

\* the synopsis arguments, as writeDocTemplate asks for SynopsisArgs
ArgsSynopsis ==
    /\ pc = "start"
    /\ args' = prepareArgsSynopsis(flags)
    /\ pc' = "synopsis"
    /\ UNCHANGED <<flags, tflags, prettifyVars, treeVars>>

\* the structured flags, as ToTabularMarkdown asks for GlobalFlags
TabularFlags ==
    /\ pc = "start"
    /\ tflags' = PrepareFlags(flags)
    /\ pc' = "structured"
    /\ UNCHANGED <<flags, args, prettifyVars, treeVars>>

NextFlags == ArgsWithValues \/ ArgsSynopsis \/ TabularFlags

SpecFlags == InitFlags /\ [][NextFlags]_vars

-----------------------------------------------------------------------------
(* What the claims speak of, for the flag formatters.                      *)

\* the number of dashes a rendered name starts with, and what follows them
Dashes(x) == Len(x) - Len(Trim(x \o <<"x">>, {"-"})) + 1

AfterDashes(x) == SubSeq(x, Dashes(x) + 1, Len(x))

\* the rendered names of one argument of prepareFlags: what stands between
\* the opener and the closer, cut at the separators
RenderedNames(arg, openerLen, closerChar, sepChar) ==
    LET at == {i \in (openerLen + 1)..Len(arg) : arg[i] = closerChar}
        end == CHOOSE i \in at : \A k \in at : i <= k
        pieces == Split(SubSeq(arg, openerLen + 1, end - 1), sepChar)
    IN  {TrimSpace(pieces[k]) : k \in 1..Len(pieces)}

\* every rendered name of the state: of args in detailed and synopsis mode,
\* of tflags (names and aliases) in structured mode
AllRenderedNames ==
    CASE pc = "detailed" ->
             UNION {RenderedNames(args[k], 2, "*", ",") : k \in 1..Len(args)}
      [] pc = "synopsis" ->
             UNION {RenderedNames(args[k], 1, "]", "|") : k \in 1..Len(args)}
      [] pc = "structured" ->
             {tflags[k].Name : k \in 1..Len(tflags)}
                 \cup UNION {{tflags[k].Aliases[i] : i \in 1..Len(tflags[k].Aliases)} :
                                k \in 1..Len(tflags)}
      [] OTHER -> {}

\* the rendered names the length rule is applied to in the code: all but
\* the names (the first declared names) of the structured flags
LengthRuleNames ==
    IF pc = "structured"
    THEN UNION {{tflags[k].Aliases[i] : i \in 1..Len(tflags[k].Aliases)} :
                   k \in 1..Len(tflags)}
    ELSE AllRenderedNames

\* C8 as written: every rendered name has one dash when it has exactly one
\* character and two dashes when it has more, in every mode.
C8_DashesByLength ==
    \A x \in AllRenderedNames :
        /\ Len(AfterDashes(x)) = 1 => Dashes(x) = 1
        /\ Len(AfterDashes(x)) > 1 => Dashes(x) = 2

\* C8 as amended: a name rendered by prepareFlags, and an alias rendered by
\* PrepareFlags, has one dash when the trimmed name is at most one byte long
\* and two dashes when it is longer in bytes; the name of a structured flag
\* is its first declared name, trimmed, after two dashes, whatever its length.
C8_DashesByByteLength ==
    /\ \A x \in LengthRuleNames :
           /\ ByteLen(AfterDashes(x)) <= 1 => Dashes(x) = 1
           /\ ByteLen(AfterDashes(x)) > 1 => Dashes(x) = 2
    /\ pc = "structured" =>
           LET docs == SelectSeq(flags, LAMBDA f : f.doc)
           IN  /\ Len(tflags) = Len(docs)
               /\ \A k \in 1..Len(docs) :
                      tflags[k].Name = <<"-", "-">> \o TrimSpace(docs[k].names[1])

\* C8 witness: structured flags with a one-character first name, rendered
\* with two dashes, and a one-character alias, rendered with one.
C8_Witness ==
    /\ pc = "structured"
    /\ \E k \in 1..Len(tflags) : tflags[k].Name = <<"-", "-", "v">>
    /\ \E k \in 1..Len(tflags) : \E i \in 1..Len(tflags[k].Aliases) :
           tflags[k].Aliases[i] = <<"-", "v">>

-----------------------------------------------------------------------------
(* The command tree: prepareCommands and tabularTemplate.PrepareCommands.  *)

MaxNodes == 4

\* prepareUsageText: the usage text of a command as a note or a code block
RECURSIVE IndentLines(_)
IndentLines(lns) ==
    IF lns = <<>> THEN <<>>
    ELSE <<" ", " ", " ", " ">> \o lns[1] \o <<NL>> \o IndentLines(Tail(lns))

prepareUsageText(command) ==
    IF command.UsageText = <<>> THEN <<>>
    ELSE LET preparedUsageText == Trim(command.UsageText, {NL})
         IN  IF \E k \in 1..Len(preparedUsageText) : preparedUsageText[k] = NL
             THEN IndentLines(Split(preparedUsageText, NL))
             ELSE <<">">> \o preparedUsageText \o <<NL>>

prepareUsage(command, usageText) ==
    IF command.Usage = <<>> THEN <<>>
    ELSE command.Usage \o <<NL>> \o (IF usageText # <<>> THEN <<NL>> ELSE <<>>)

\* command.Names(): the name and the aliases
Names(command) == <<command.Name>> \o command.Aliases

\* prepareCommands: the block of one command
Prepared(command, level) ==
    LET usageText == prepareUsageText(command)
        usage == prepareUsage(command, usageText)
        fl == prepareArgsWithValues(command.VisibleFlags)
    IN  Repeat("#", level + 2) \o <<" ">> \o Join(Names(command), <<",", " ">>)
            \o <<NL, NL>> \o usage \o usageText
            \o (IF Len(fl) > 0 THEN <<NL>> \o Join(fl, <<NL>>) ELSE <<>>)

\* prepareCommands(commands, level), the commands being ids into c
RECURSIVE prepareCommands(_, _, _)
prepareCommands(c, commands, level) ==
    IF commands = <<>> THEN <<>>
    ELSE LET command == c[commands[1]]
             rest == prepareCommands(c, Tail(commands), level)
         IN  IF command.Hidden THEN rest
             ELSE <<Prepared(command, level)>>
                      \o (IF Len(command.Commands) > 0
                          THEN prepareCommands(c, command.Commands, level + 1)
                          ELSE <<>>)
                      \o rest

\* PrepareCommands converts CLI commands into a structs for the rendering
RECURSIVE PrepareCommands(_, _, _, _, _)
PrepareCommands(c, commands, appPath, parentCommandName, level) ==
    IF commands = <<>> THEN <<>>
    ELSE LET cmd == c[commands[1]]
         IN  << [ AppPath |-> appPath,
                  Name |-> TrimSpace(Join(<<parentCommandName, cmd.Name>>, <<" ">>)),
                  Aliases |-> cmd.Aliases,
                  Usage |-> PrepareMultilineString(cmd.Usage),
                  UsageText |-> FieldsFunc(cmd.UsageText, NL),
                  ArgsUsage |-> PrepareMultilineString(cmd.ArgsUsage),
                  Description |-> PrepareMultilineString(cmd.Description),
                  Category |-> cmd.Category,
                  Flags |-> PrepareFlags(cmd.VisibleFlags),
                  SubCommands |->
                      PrepareCommands(c, cmd.Commands, appPath,
                                      Join(<<parentCommandName, cmd.Name>>, <<" ">>),
                                      level + 1),
                  Level |-> level ] >>
                 \o PrepareCommands(c, Tail(commands), appPath, parentCommandName, level)

\* a.VisibleCommands(): the commands of the App that are not hidden
VisibleCommands(c, commands) == SelectSeq(commands, LAMBDA i : ~c[i].Hidden)

\* the name of the command with id i
NameOf(i) == <<<<"p">>, <<"q">>, <<"r">>, <<"w">>, <<"y">>, <<"z">>>>[i]

\* the ids of the commands whose parent is i, in the order of declaration
Kids(parent, i) == SelectSeq([j \in 1..MaxNodes |-> j], LAMBDA j : parent[j] = i)

\* the command with id i; id 0 is the App, of which only Commands is read
CommandOf(parent, hidden, i) ==
    IF i = 0 THEN [Commands |-> Kids(parent, 0)]
    ELSE [ Name |-> NameOf(i),
           Aliases |-> IF i = 2 THEN <<<<"a">>>> ELSE <<>>,
           Usage |-> IF i % 2 = 1 THEN <<"u", ".">> ELSE <<>>,
           UsageText |-> CASE i % 3 = 0 -> <<>>
                           [] i % 3 = 1 -> <<NL, "t", NL>>
                           [] OTHER -> <<"t", NL, "t">>,
           ArgsUsage |-> <<>>,
           Description |-> IF i = 1 THEN <<"d", NL, "d", ".">> ELSE <<>>,
           Category |-> <<>>,
           VisibleFlags |-> IF i = 2 THEN <<StringFlag(<<<<"v">>>>)>> ELSE <<>>,
           Commands |-> Kids(parent, i),
           Hidden |-> hidden[i] ]

InitTree ==
    /\ \E parent \in [1..MaxNodes -> 0..(MaxNodes - 1)] :
       \E hidden \in [1..MaxNodes -> BOOLEAN] :
           /\ \A i \in 1..MaxNodes : parent[i] < i
           /\ cmds = [i \in 0..MaxNodes |-> CommandOf(parent, hidden, i)]
    /\ coms = <<>>
    /\ tcoms = <<>>
    /\ pc = "start"
    /\ t = <<>> /\ s = <<>> /\ tables = <<>> /\ n = 0 /\ b = <<>>
    /\ pass = 0 /\ out1 = <<>>
    /\ flags = <<>> /\ args = <<>> /\ tflags = <<>>

\* writeDocTemplate: Commands: prepareCommands(a.Commands, 0)
FlowingCommands ==
    /\ pc = "start"
    /\ coms' = prepareCommands(cmds, cmds[0].Commands, 0)
    /\ pc' = "flowing"
    /\ UNCHANGED <<cmds, tcoms, prettifyVars, flagVars>>

\* ToTabularMarkdown: Commands: tt.PrepareCommands(a.VisibleCommands(), o.appPath, "", 0)
TabularCommands ==
    /\ pc = "start"
    /\ tcoms' = PrepareCommands(cmds, VisibleCommands(cmds, cmds[0].Commands),
                                <<"a", "p", "p">>, <<>>, 0)
    /\ pc' = "tabular"
    /\ UNCHANGED <<cmds, coms, prettifyVars, flagVars>>

NextTree == FlowingCommands \/ TabularCommands

SpecTree == InitTree /\ [][NextTree]_vars

-----------------------------------------------------------------------------
(* What the claims speak of, for the command tree.                         *)

\* the names of the hidden commands
HiddenNames == {cmds[i].Name : i \in {k \in 1..MaxNodes : cmds[k].Hidden}}

\* the names in the heading of a block of prepareCommands
HeadingNames(block) ==
    LET heading == LineAt(block, 1)
        pieces == Split(Trim(heading, {"#"}), ",")
    IN  {TrimSpace(pieces[k]) : k \in 1..Len(pieces)}

\* the records of PrepareCommands, at every depth
RECURSIVE AllRecords(_)
AllRecords(recs) ==
    IF recs = <<>> THEN {}
    ELSE {recs[1]} \cup AllRecords(recs[1].SubCommands) \cup AllRecords(Tail(recs))

\* the segments of a qualified name
Segments(name) == {FieldsFunc(name, " ")[k] : k \in 1..Len(FieldsFunc(name, " "))}

\* C6: a hidden command appears in no output at any depth: no block of the
\* flowing flattening is headed by its name, and its name is a segment of the
\* qualified name of no record of the tabular flattening.
C6_HiddenNeverAppears ==
    /\ \A k \in 1..Len(coms) : HeadingNames(coms[k]) \cap HiddenNames = {}
    /\ \A r \in AllRecords(tcoms) : Segments(r.Name) \cap HiddenNames = {}

-----------------------------------------------------------------------------
(* What the claims speak of, for Prettify.                                 *)

\* the input of the running call
Input == IF pass = 1 THEN t ELSE out1

\* every raw block has been processed and the cleanup has not been done
LoopEnded == pc = "loop" /\ n > Len(tables)

\* the block processed last was not skipped: b holds its new text
JustRewritten == pc = "loop" /\ n > 1 /\ ~TooShort(TableLines(tables[n - 1]))

\* some row of the block has another number of parsed cells than the header
Mismatched(rawTable) ==
    LET m == ParseMatrix(rawTable)
    IN  \E i \in 1..Len(m) : Len(m[i]) # Len(m[1])

\* the rows of a built table: for each line the texts between its pipes
OutRows(x) ==
    LET ls == FieldsFunc(x, NL)
    IN  [i \in 1..Len(ls) |->
            IF Len(ls[i]) <= 2 THEN <<>>
            ELSE Split(SubSeq(ls[i], 2, Len(ls[i]) - 1), "|")]

\* width(j): the maximum codepoint count among the header and body cells of column j
ColumnWidth(m, j) ==
    LET ws == {Len(m[i][j]) : i \in {k \in 1..Len(m) : k # 2 /\ j <= Len(m[k])}}
    IN  CHOOSE w \in ws : \A v \in ws : w >= v

\* the number of spaces a rendered cell starts with / ends with
LeadingSpaces(c) == Len(c) - Len(Trim(c \o <<"x">>, {" "})) + 1

TrailingSpaces(c) == Len(c) - Len(Trim(<<"x">> \o c, {" "})) + 1

\* x holds three newlines in a row
HasTripleNL(x) == \E i \in 1..(Len(x) - 2) : x[i] = NL /\ x[i + 1] = NL /\ x[i + 2] = NL

\* x with every block of three lines or more, at its own place m[k], replaced
\* by its reflowed form: the places are taken from the last to the first
RECURSIVE RewrittenInPlace(_, _, _)
RewrittenInPlace(x, m, k) ==
    IF k = 0 THEN x
    ELSE LET raw == SubSeq(x, m[k].from, m[k].to)
             new == IF TooShort(TableLines(raw)) THEN raw ELSE Reflow(raw)
         IN  RewrittenInPlace(SubSeq(x, 1, m[k].from - 1) \o new
                                  \o SubSeq(x, m[k].to + 1, Len(x)), m, k - 1)

\* C1: a block in which some row has another number of parsed cells than the
\* header is skipped: the step that processes it leaves the text as it was
\* and the function goes on.
C1_MismatchedBlockUntouched ==
    [][(pc = "loop" /\ n <= Len(tables) /\ Mismatched(tables[n]))
           => (s' = s /\ pc' = "loop")]_vars

\* C2: Prettify is total: no input makes it abort with an index out of range.
C2_NeverPanics == pc # "panic"

\* C3: in a block that was rewritten, every cell of column j (header,
\* separator, body; left-aligned or centered) has width(j) + 2 codepoints
\* between its pipes, and the rows keep their cells.
C3_ColumnWidthUniform ==
    JustRewritten =>
        LET m == ParseMatrix(tables[n - 1])
            rows == OutRows(b)
        IN  /\ Len(rows) = Len(m)
            /\ \A i \in 1..Len(rows) :
                   /\ Len(rows[i]) = Len(m[i])
                   /\ \A j \in 1..Len(rows[i]) : Len(rows[i][j]) = ColumnWidth(m, j) + 2

\* C3 witness: a block with a left-aligned and a centered column, both with
\* cells of different widths, has been rewritten.
C3_Witness ==
    /\ JustRewritten
    /\ pass = 1
    /\ LET m == ParseMatrix(tables[n - 1])
       IN  /\ Len(m[1]) = 2
           /\ \A i \in 1..Len(m) : Len(m[i]) = 2
           /\ ~Centered(m)[1] /\ Centered(m)[2]
           /\ \E i \in 1..Len(m) : i # 2 /\ Len(m[i][1]) < ColumnWidth(m, 1)
           /\ \E i \in 1..Len(m) : i # 2 /\ Len(m[i][2]) < ColumnWidth(m, 2)

\* C4: for a text whose tables are all well-formed, the second call returns
\* what the first call returned.  The tables of the first result are taken
\* to be well-formed too, so that a second call that fails on a malformed
\* table is not counted against the claim.
C4_Idempotent ==
    (pass = 2 /\ pc \in {"done", "panic"}
        /\ (\A k \in 1..Len(FindAllString(t)) : ~Mismatched(FindAllString(t)[k]))
        /\ (\A k \in 1..Len(FindAllString(out1)) : ~Mismatched(FindAllString(out1)[k])))
    => (pc = "done" /\ s = out1)

\* C5 as written: a block of a header row and a separator row only is
\* reflowed: after its step the text holds its padded header and its
\* regenerated separator.
C5_TwoLineBlockReflowed ==
    (pc = "loop" /\ n > 1 /\ Len(TableLines(tables[n - 1])) = 2
        /\ ~Mismatched(tables[n - 1]))
    => Index(s, Reflow(tables[n - 1])) # 0

\* C5 as amended: a block of a header row and a separator row only is
\* skipped: its step changes neither the text nor the builder and goes on to
\* the next block.
C5_TwoLineBlockSkipped ==
    [][(pc = "loop" /\ n <= Len(tables) /\ Len(TableLines(tables[n])) = 2)
           => (s' = s /\ b' = b /\ n' = n + 1 /\ pc' = "loop")]_vars

\* C5 witness: a well-formed block of two lines, which reflowing would have
\* changed, has been processed and its raw text is still in the text.
C5_Witness ==
    /\ pc = "loop" /\ pass = 1 /\ n > 1
    /\ Len(TableLines(tables[n - 1])) = 2
    /\ ~Mismatched(tables[n - 1])
    /\ Index(Reflow(tables[n - 1]), tables[n - 1]) = 0
    /\ Index(s, tables[n - 1]) # 0

\* C7: the result has no three newlines in a row, starts with no space or
\* newline, and ends with one newline that no space or newline precedes.
C7_CleanResult ==
    pc = "done" =>
        /\ ~HasTripleNL(s)
        /\ Len(s) >= 1 /\ s[Len(s)] = NL
        /\ Len(s) >= 2 => (s[Len(s) - 1] \notin {" ", NL} /\ s[1] \notin {" ", NL})

\* C7 witness: a text that starts with a space, holds three newlines in a
\* row and ends with a newline has been cleaned to more than a newline.
C7_Witness ==
    /\ pc = "done" /\ pass = 1
    /\ HasTripleNL(t)
    /\ t[1] = " " /\ t[Len(t)] = NL
    /\ Len(s) > 1

\* C9: once every block is processed, the text is the input with every
\* block of three lines or more replaced, at its own place, by its reflowed
\* form, and nothing else changed.
C9_RewrittenAtOwnPlace ==
    LoopEnded =>
        s = RewrittenInPlace(Input, FindAllIndex(Input), Len(FindAllIndex(Input)))

\* C10 as written: in a centered column the left pad L and the right pad R
\* of every header and body cell satisfy L <= R <= L + 1.
C10_CenteredExtraRight ==
    JustRewritten =>
        LET m == ParseMatrix(tables[n - 1])
            rows == OutRows(b)
        IN  \A i \in 1..Len(m) : \A j \in 1..Len(m[i]) :
                (i # 2 /\ Centered(m)[j] /\ m[i][j] # <<>>) =>
                    LET L == LeadingSpaces(rows[i][j])
                        R == TrailingSpaces(rows[i][j])
                    IN  L <= R /\ R <= L + 1

\* C10 as amended: the same, but for a cell whose leftover space (the
\* column width minus the content width) is exactly 1: that cell has two
\* spaces on its left and one on its right.
C10_CenteredPadding ==
    JustRewritten =>
        LET m == ParseMatrix(tables[n - 1])
            rows == OutRows(b)
        IN  \A i \in 1..Len(m) : \A j \in 1..Len(m[i]) :
                (i # 2 /\ Centered(m)[j] /\ m[i][j] # <<>>) =>
                    LET L == LeadingSpaces(rows[i][j])
                        R == TrailingSpaces(rows[i][j])
                        leftover == ColumnWidth(m, j) - Len(m[i][j])
                    IN  /\ leftover = 1 => (L = 2 /\ R = 1)
                        /\ leftover # 1 => (L <= R /\ R <= L + 1)
                        /\ (leftover > 1 /\ leftover % 2 = 1) => R = L + 1

\* C10 witness: a centered column with a cell whose leftover space is 3 has
\* been rewritten.
C10_Witness ==
    /\ JustRewritten
    /\ pass = 1
    /\ LET m == ParseMatrix(tables[n - 1])
       IN  \E i \in 1..Len(m) : \E j \in 1..Len(m[i]) :
               /\ i # 2 /\ Centered(m)[j]
               /\ ColumnWidth(m, j) - Len(m[i][j]) = 3

====
